---- MODULE Spec2Model ----
(***************************************************************************)
(* Model of the wordgamestui client (src/main.go): the bubbletea model,    *)
(* its Update handler, and the four commands that run beside it            *)
(* (connectToWsServer, listenToWsServer, sendToWsServer,                   *)
(* periodicallyPingWsServer).                                              *)
(*                                                                         *)
(* The bubbletea runtime is modelled as two bags: cmds holds the commands  *)
(* that Update returned and that are running in their own goroutine, msgs  *)
(* holds the messages those commands returned and that Update has not      *)
(* handled yet.  Update handles one message at a time, in any order the    *)
(* goroutines' sends may be taken.  Key presses are handled as they come.  *)
(*                                                                         *)
(* Text typed and sent by the user is a sequence of one-character strings, *)
(* so that strings.TrimSpace is computed and not assumed.  JSON values are *)
(* tagged records: Nil (absent key or null), JStr, JNum, JObj.             *)
(***************************************************************************)
EXTENDS Bags, FiniteSets, Integers, Sequences, TLC

\* src/main.go:19
chatMessagesMax == 12

\* Bounds of the model.
MaxFrames == 2
MaxInputLen == 6
MaxSends == 1
MaxClock == 0
MaxChatFrames == 14

VARIABLES
    status,        \* "running", "quit" (tea.Quit) or "crashed" (a panic)
    conn,          \* model.conn: "nil" or the handle "conn"
    net,           \* the transport under the handle: "none", "up" or "down"
    cmds,          \* bag of commands running in goroutines
    msgs,          \* bag of messages waiting for Update
    err,           \* model.err: <<>> is nil, else the pieces of the error text
    timer,         \* model.timer
    textInput,     \* model.textInput.Value()
    chatMessages,  \* model.chatMessages
    wordBoxGuide,  \* model.wordBoxGuide
    wordBox,       \* model.wordBox
    lastID,        \* the timer package's id counter
    nRead,         \* history: frames wsjson.Read has returned so far
    nProc,         \* history: frames whose message Update has handled
    chatHist,      \* history: chat messages appended since the log was last emptied
    last           \* history: what the last step was if it handled Enter or ctrl+e
                   \* or made a write on the connection

vars == <<status, conn, net, cmds, msgs, err, timer, textInput, chatMessages,
          wordBoxGuide, wordBox, lastID, nRead, nProc, chatHist, last>>

-----------------------------------------------------------------------------
\* Text

ExitText == <<"/", "e", "x", "i", "t">>
ClearText == <<"/", "c", "l", "e", "a", "r">>
PingText == <<"/", "p", "i", "n", "g">>

\* unicode.IsSpace, which strings.TrimSpace trims: '\t', '\n', '\v', '\f', '\r',
\* ' ', U+0085, U+00A0, U+1680, U+2000 to U+200A, U+2028, U+2029, U+202F,
\* U+205F and U+3000.  The characters from U+2000 on cannot be written in a
\* string of this module, so no text of the model holds them.
VT == ""
NEL == ""
NBSP == " "
OghamSpace == " "
WhiteSpace == {"\t", "\n", VT, "\f", "\r", " ", NEL, NBSP, OghamSpace}
IsSpace(c) == c \in WhiteSpace

RECURSIVE TrimLeft(_)
TrimLeft(s) ==
    IF s = <<>> THEN <<>>
    ELSE IF IsSpace(Head(s)) THEN TrimLeft(Tail(s)) ELSE s

RECURSIVE TrimRight(_)
TrimRight(s) ==
    IF s = <<>> THEN <<>>
    ELSE IF IsSpace(s[Len(s)]) THEN TrimRight(SubSeq(s, 1, Len(s) - 1)) ELSE s

\* strings.TrimSpace
TrimSpace(s) == TrimRight(TrimLeft(s))

\* What the user types or pastes in one key message: text to send, and the
\* three commands.
TypedToSend == {<<" ">> \o PingText, <<"c", "a", "t">>}
Typed == TypedToSend \cup {ClearText, ExitText \o <<" ">>}

-----------------------------------------------------------------------------
\* JSON values as wsjson.Read decodes them into map[string]interface{}

Nil == [k |-> "nil"]
JStr(s) == [k |-> "str", s |-> s]
JNum(n) == [k |-> "num", n |-> n]
JObj(f) == [k |-> "obj", f |-> f]

\* v[key] on a Go map: the zero value (nil interface) for an absent key
Lookup(v, key) == IF key \in DOMAIN v THEN v[key] ELSE Nil

\* x.(string) succeeds
IsString(x) == x.k = "str"
\* x.(map[string]any) succeeds
IsMap(x) == x.k = "obj"

\* fmt's %s verb applied to an interface value
FmtS(x) ==
    CASE x.k = "str" -> x.s
      [] x.k = "nil" -> "%!s(<nil>)"
      [] x.k = "num" -> "%!s(float64=" \o ToString(x.n) \o ")"
      [] OTHER -> "map[...]"

\* time.Parse(time.RFC3339, s) on the timestamps the frames carry: ok and the
\* instant t, counted in timer intervals (100ms) on the model's clock, or not ok.
GoodTime == "2099-01-01T00:00:10Z"
BadTime == "2099-01-01 00:00:10"
ParseRFC3339(s) ==
    IF s = GoodTime THEN [ok |-> TRUE, t |-> 1] ELSE [ok |-> FALSE, t |-> 0]

\* readings of time.Now()
Clock == 0 .. MaxClock

-----------------------------------------------------------------------------
\* Errors: the pieces fmt.Errorf puts together; <<>> is the nil error

NoErr == <<>>
DialErr == <<"websocket.Dial: ", "dial failed">>
ReadErr == <<"wsjson.Read: ", "failed to read JSON message">>
WriteErr == <<"c.Write: ", "failed to write msg">>
UnknownTypeErr(tag) == <<"unknown message type: ", FmtS(tag)>>
ManualPingErr == <<"don't ping manually! this is handled automatically by the client">>
ParseErr(s) == <<"parsing time ", s, " as ", "2006-01-02T15:04:05Z07:00">>

-----------------------------------------------------------------------------
\* Frames the server may send

RoundStartContent(w, t) == JObj([word_to_guess |-> w, round_finish_time |-> t])
RoundFinishContent(w, t) == JObj([word_answer |-> w, to_next_round_time |-> t])

WellFormedFrames ==
    { [type |-> JStr("ChatMessage"), content |-> JStr("hello")],
      [type |-> JStr("OngoingRoundInfo"),
       content |-> RoundStartContent(JStr("elppa"), JStr(GoodTime))],
      [type |-> JStr("OngoingRoundInfo"),
       content |-> RoundStartContent(JStr("elppa"), JStr(BadTime))],
      [type |-> JStr("FinishedRoundInfo"),
       content |-> RoundFinishContent(JStr("apple"), JStr(GoodTime))],
      [type |-> JStr("FinishedRoundInfo"),
       content |-> RoundFinishContent(JStr("apple"), JStr(BadTime))],
      [type |-> JStr("FinishedGame")],
      [type |-> JStr("PongMessage")] }

UnknownFrames ==
    { [type |-> JStr("Weird")],
      [content |-> JStr("hello")] }

MalformedFrames ==
    { [type |-> JStr("ChatMessage")],
      [type |-> JStr("ChatMessage"), content |-> JNum(5)],
      [type |-> JStr("OngoingRoundInfo")],
      [type |-> JStr("OngoingRoundInfo"), content |-> JStr("elppa")],
      [type |-> JStr("OngoingRoundInfo"),
       content |-> JObj([round_finish_time |-> JStr(GoodTime)])],
      [type |-> JStr("OngoingRoundInfo"),
       content |-> RoundStartContent(JStr("elppa"), JNum(5))],
      [type |-> JStr("FinishedRoundInfo"), content |-> Nil],
      [type |-> JStr("FinishedRoundInfo"),
       content |-> RoundFinishContent(JNum(5), JStr(GoodTime))],
      [type |-> JStr("FinishedRoundInfo"),
       content |-> JObj([word_answer |-> JStr("apple")])] }

Frames == WellFormedFrames \cup UnknownFrames \cup MalformedFrames

-----------------------------------------------------------------------------
\* The state after initialModel() and Init(): no connection, the zero timer,
\* and connectToWsServer running.

NoEvent == [kind |-> "none"]
Wrote(by, payload) == [kind |-> "write", by |-> by, payload |-> payload]
\* Enter or ctrl+e, and the trimmed value of the input when it was pressed
Pressed(key, trimmed) == [kind |-> "key", key |-> key, text |-> trimmed]

ConnectCmd == [cmd |-> "connect"]
ListenCmd == [cmd |-> "listen"]
PingCmd == [cmd |-> "ping"]
SendCmd(text) == [cmd |-> "send", msg |-> text]

\* errMsg{err}; by is history: the command that returned it ("connect", "user"
\* for sendToWsServer, "keepalive" for periodicallyPingWsServer)
errMsg(e, by) == [type |-> "errMsg", err |-> e, by |-> by]

One(x) == SetToBag({x})

\* the listenToWsServer commands that have not returned yet
Reading == CopiesIn(ListenCmd, cmds)
\* the user's writes on their way: the sendToWsServer commands that have not
\* returned yet and the results that Update has not handled yet
Sending ==
    BagCardinality(cmds) - Reading - CopiesIn(PingCmd, cmds) - CopiesIn(ConnectCmd, cmds)
    + CopiesIn([type |-> "successSentMsg"], msgs)
    + CopiesIn(errMsg(WriteErr, "user"), msgs)
    + CopiesIn(errMsg(ManualPingErr, "user"), msgs)

initialModel ==
    /\ conn = "nil"
    /\ err = NoErr
    /\ timer = [Timeout |-> 0, id |-> 0, running |-> FALSE]
    /\ textInput = <<>>
    /\ chatMessages = <<>>
    /\ wordBoxGuide = "WAITING ROUND START!"
    /\ wordBox = ""

Init ==
    /\ initialModel
    /\ status = "running"
    /\ net = "none"
    /\ cmds = One(ConnectCmd)
    /\ msgs = EmptyBag
    /\ lastID = 0
    /\ nRead = 0
    /\ nProc = 0
    /\ chatHist = <<>>
    /\ last = NoEvent

\* the fields of model
modelVars == <<conn, err, timer, textInput, chatMessages, wordBoxGuide, wordBox>>

-----------------------------------------------------------------------------
\* Commands

\* connectToWsServer: one dial, whose outcome the network decides
connectToWsServer ==
    /\ status = "running"
    /\ BagIn(ConnectCmd, cmds)
    /\ \E ok \in BOOLEAN :
          /\ net' = IF ok THEN "up" ELSE "none"
          /\ msgs' = msgs (+) One(IF ok THEN [type |-> "initConnMsg", conn |-> "conn"]
                                        ELSE errMsg(DialErr, "connect"))
    /\ cmds' = cmds (-) One(ConnectCmd)
    /\ UNCHANGED <<status, modelVars, lastID, nRead, nProc, chatHist>>
    /\ last' = NoEvent

\* the switch of listenToWsServer panics on v: a failed type assertion
DecodePanics(v) ==
    LET type == Lookup(v, "type")
        content == Lookup(v, "content")
    IN  \/ type = JStr("ChatMessage") /\ ~IsString(content)
        \/ type \in {JStr("OngoingRoundInfo"), JStr("FinishedRoundInfo")} /\ ~IsMap(content)

\* Decode with the bug of a default case that reports nothing
Decode_UnknownIgnored(v, seq) ==
    LET type == Lookup(v, "type")
        content == Lookup(v, "content")
    IN  CASE type = JStr("ChatMessage") ->
               [type |-> "wsChatMsg", content |-> content.s, seq |-> seq, frame |-> v]
          [] type = JStr("OngoingRoundInfo") ->
               [type |-> "wsOngoingRoundInfoMsg", content |-> content.f, seq |-> seq, frame |-> v]
          [] type = JStr("FinishedRoundInfo") ->
               [type |-> "wsFinishedRoundInfoMsg", content |-> content.f, seq |-> seq, frame |-> v]
          [] type = JStr("FinishedGame") -> [type |-> "wsFinishedGameMsg", seq |-> seq, frame |-> v]
          [] OTHER -> [type |-> "wsPongMsg", seq |-> seq, frame |-> v]

\* the switch of listenToWsServer: the message for the decoded map v; seq and
\* frame are history, the frame and its place in the order of receipt
Decode(v, seq) ==
    LET type == Lookup(v, "type")
        content == Lookup(v, "content")
    IN  CASE type = JStr("ChatMessage") ->
               [type |-> "wsChatMsg", content |-> content.s, seq |-> seq, frame |-> v]
          [] type = JStr("OngoingRoundInfo") ->
               [type |-> "wsOngoingRoundInfoMsg", content |-> content.f, seq |-> seq, frame |-> v]
          [] type = JStr("FinishedRoundInfo") ->
               [type |-> "wsFinishedRoundInfoMsg", content |-> content.f, seq |-> seq, frame |-> v]
          [] type = JStr("FinishedGame") -> [type |-> "wsFinishedGameMsg", seq |-> seq, frame |-> v]
          [] type = JStr("PongMessage") -> [type |-> "wsPongMsg", seq |-> seq, frame |-> v]
          [] OTHER -> [type |-> "wsErrMsg", err |-> UnknownTypeErr(type), seq |-> seq, frame |-> v]

\* listenToWsServer's closure: one wsjson.Read, then the switch.  F is the set
\* of frames the server may send next and max bounds how many it sends.
listenToWsServer(F, max) ==
    /\ status = "running"
    /\ BagIn(ListenCmd, cmds)
    /\ IF net = "up"
       THEN /\ nRead < max
            /\ \E v \in F :
                  IF DecodePanics(v)
                  THEN /\ status' = "crashed"
                       /\ UNCHANGED <<cmds, msgs>>
                  ELSE /\ msgs' = msgs (+) One(Decode(v, nRead + 1))
                       /\ cmds' = cmds (-) One(ListenCmd)
                       /\ UNCHANGED status
            /\ nRead' = nRead + 1
       ELSE /\ msgs' = msgs (+) One([type |-> "wsErrMsg", err |-> ReadErr, seq |-> 0, frame |-> Nil])
            /\ cmds' = cmds (-) One(ListenCmd)
            /\ UNCHANGED <<status, nRead>>
    /\ UNCHANGED <<net, modelVars, lastID, nProc, chatHist>>
    /\ last' = NoEvent

\* sendToWsServer's closure
sendToWsServer(c) ==
    /\ status = "running"
    /\ BagIn(c, cmds)
    /\ c.cmd = "send"
    /\ cmds' = cmds (-) One(c)
    /\ IF c.msg = PingText
       THEN /\ msgs' = msgs (+) One(errMsg(ManualPingErr, "user"))
            /\ last' = NoEvent
       ELSE IF net = "up"
       THEN /\ msgs' = msgs (+) One([type |-> "successSentMsg"])
            /\ last' = Wrote("user", c.msg)
       ELSE /\ msgs' = msgs (+) One(errMsg(WriteErr, "user"))
            /\ last' = NoEvent
    /\ UNCHANGED <<status, net, modelVars, lastID, nRead, nProc, chatHist>>

\* periodicallyPingWsServer with the bug of returning after the first write
periodicallyPingWsServer_OneShot ==
    /\ status = "running"
    /\ BagIn(PingCmd, cmds)
    /\ cmds' = cmds (-) One(PingCmd)
    /\ IF net = "up"
       THEN /\ last' = Wrote("keepalive", PingText)
            /\ UNCHANGED msgs
       ELSE /\ msgs' = msgs (+) One(errMsg(WriteErr, "keepalive"))
            /\ last' = NoEvent
    /\ UNCHANGED <<status, net, modelVars, lastID, nRead, nProc, chatHist>>

\* periodicallyPingWsServer with the bug of going on after a failed write
periodicallyPingWsServer_GoesOn ==
    /\ status = "running"
    /\ BagIn(PingCmd, cmds)
    /\ IF net = "up"
       THEN /\ last' = Wrote("keepalive", PingText)
            /\ UNCHANGED <<cmds, msgs>>
       ELSE /\ msgs' = msgs (+) One(errMsg(WriteErr, "keepalive"))
            /\ last' = NoEvent
            /\ UNCHANGED cmds
    /\ UNCHANGED <<status, net, modelVars, lastID, nRead, nProc, chatHist>>

\* one turn of periodicallyPingWsServer's loop: the sleep is over, the write
\* is made, and the loop goes on unless the write failed
periodicallyPingWsServer ==
    /\ status = "running"
    /\ BagIn(PingCmd, cmds)
    /\ IF net = "up"
       THEN /\ last' = Wrote("keepalive", PingText)
            /\ UNCHANGED <<cmds, msgs>>
       ELSE /\ cmds' = cmds (-) One(PingCmd)
            /\ msgs' = msgs (+) One(errMsg(WriteErr, "keepalive"))
            /\ last' = NoEvent
    /\ UNCHANGED <<status, net, modelVars, lastID, nRead, nProc, chatHist>>

\* the transport fails or the server closes the connection
NetBreak ==
    /\ status = "running"
    /\ net = "up"
    /\ net' = "down"
    /\ UNCHANGED <<status, cmds, msgs, modelVars, lastID, nRead, nProc, chatHist>>
    /\ last' = NoEvent

-----------------------------------------------------------------------------
\* Update, one case of its type switch per definition.  Each handler ends as
\* Update ends: textInput.Update(msg), which changes the value for key
\* messages only, and tea.Batch of the commands gathered.

\* case "ctrl+c": return m, tea.Quit, which ends the program
KeyCtrlC ==
    /\ status = "running"
    /\ status' = "quit"
    /\ UNCHANGED <<net, cmds, msgs, modelVars, lastID, nRead, nProc, chatHist>>
    /\ last' = NoEvent

\* case "ctrl+e": m.err = nil; textInput.Update moves the cursor to the end of
\* the value, where it stays in this model
KeyCtrlE ==
    /\ status = "running"
    /\ err' = NoErr
    /\ UNCHANGED <<status, net, cmds, msgs, conn, timer, textInput, chatMessages,
                   wordBoxGuide, wordBox, lastID, nRead, nProc, chatHist>>
    /\ last' = Pressed("ctrl+e", TrimSpace(textInput))

\* KeyEnter with the bug of clearing the chat log only when connected
KeyEnter_ClearNeedsConn ==
    /\ status = "running"
    /\ LET trimmedInput == TrimSpace(textInput) IN
       IF trimmedInput = ExitText
       THEN /\ status' = "quit"
            /\ UNCHANGED <<cmds, textInput, chatMessages, chatHist>>
       ELSE IF trimmedInput = ClearText /\ conn # "nil"
       THEN /\ chatMessages' = <<>>
            /\ textInput' = <<>>
            /\ chatHist' = <<>>
            /\ UNCHANGED <<status, cmds>>
       ELSE IF conn # "nil" /\ trimmedInput # <<>>
       THEN /\ Sending < MaxSends
            /\ cmds' = cmds (+) One(SendCmd(trimmedInput))
            /\ UNCHANGED <<status, textInput, chatMessages, chatHist>>
       ELSE UNCHANGED <<status, cmds, textInput, chatMessages, chatHist>>
    /\ UNCHANGED <<net, msgs, conn, err, timer, wordBoxGuide, wordBox, lastID, nRead,
                   nProc>>
    /\ last' = Pressed("enter", TrimSpace(textInput))

\* KeyEnter with the bug of emptying the input when nothing can be sent
KeyEnter_NoopEmptiesInput ==
    /\ status = "running"
    /\ LET trimmedInput == TrimSpace(textInput) IN
       IF trimmedInput = ExitText
       THEN /\ status' = "quit"
            /\ UNCHANGED <<cmds, textInput, chatMessages, chatHist>>
       ELSE IF trimmedInput = ClearText
       THEN /\ chatMessages' = <<>>
            /\ textInput' = <<>>
            /\ chatHist' = <<>>
            /\ UNCHANGED <<status, cmds>>
       ELSE IF conn # "nil" /\ trimmedInput # <<>>
       THEN /\ Sending < MaxSends
            /\ cmds' = cmds (+) One(SendCmd(trimmedInput))
            /\ UNCHANGED <<status, textInput, chatMessages, chatHist>>
       ELSE /\ textInput' = <<>>
            /\ UNCHANGED <<status, cmds, chatMessages, chatHist>>
    /\ UNCHANGED <<net, msgs, conn, err, timer, wordBoxGuide, wordBox, lastID, nRead,
                   nProc>>
    /\ last' = Pressed("enter", TrimSpace(textInput))

\* case "enter"
KeyEnter ==
    /\ status = "running"
    /\ LET trimmedInput == TrimSpace(textInput) IN
       IF trimmedInput = ExitText
       THEN /\ status' = "quit"
            /\ UNCHANGED <<cmds, textInput, chatMessages, chatHist>>
       ELSE IF trimmedInput = ClearText
       THEN /\ chatMessages' = <<>>
            /\ textInput' = <<>>
            /\ chatHist' = <<>>
            /\ UNCHANGED <<status, cmds>>
       ELSE IF conn # "nil" /\ trimmedInput # <<>>
       THEN /\ Sending < MaxSends
            /\ cmds' = cmds (+) One(SendCmd(trimmedInput))
            /\ UNCHANGED <<status, textInput, chatMessages, chatHist>>
       ELSE UNCHANGED <<status, cmds, textInput, chatMessages, chatHist>>
    /\ UNCHANGED <<net, msgs, conn, err, timer, wordBoxGuide, wordBox, lastID, nRead,
                   nProc>>
    /\ last' = Pressed("enter", TrimSpace(textInput))

\* any other key message: no case of Update's switch; textInput.Update puts
\* the runes at the cursor, which stays at the end of the value
KeyRunes(T) ==
    /\ status = "running"
    /\ \E rs \in T :
          /\ Len(textInput) + Len(rs) <= MaxInputLen
          /\ textInput' = textInput \o rs
    /\ UNCHANGED <<status, net, cmds, msgs, conn, err, timer, chatMessages,
                   wordBoxGuide, wordBox, lastID, nRead, nProc, chatHist>>
    /\ last' = NoEvent

\* the key ctrl+u: no case of Update's switch; textInput.Update deletes the
\* text before the cursor, which is the whole value
KeyCtrlU ==
    /\ status = "running"
    /\ textInput # <<>>
    /\ textInput' = <<>>
    /\ UNCHANGED <<status, net, cmds, msgs, conn, err, timer, chatMessages,
                   wordBoxGuide, wordBox, lastID, nRead, nProc, chatHist>>
    /\ last' = NoEvent

\* timer.Model.Timedout and Running
Timedout(t) == t.Timeout <= 0
Running(t) == ~Timedout(t) /\ t.running

TickMsg(id) == [type |-> "TickMsg", ID |-> id]

\* the message m leaves the queue and the commands in the bag c start
Handled(m, c, newMsgs) ==
    /\ msgs' = (msgs (-) One(m)) (+) newMsgs
    /\ cmds' = cmds (+) c
    /\ last' = NoEvent

\* a panic inside Update: the program ends, the model is not replaced
Panic(m) ==
    /\ status' = "crashed"
    /\ UNCHANGED <<net, cmds, msgs, modelVars, lastID, nRead, nProc, chatHist>>
    /\ last' = NoEvent

\* case timer.TickMsg: timer.Update takes an interval off a running timer
\* whose id the tick carries and asks for the next tick
UpdateTick(m) ==
    /\ m.type = "TickMsg"
    /\ IF Running(timer) /\ (m.ID = 0 \/ m.ID = timer.id)
       THEN /\ timer' = [timer EXCEPT !.Timeout = @ - 1]
            /\ Handled(m, EmptyBag, One(TickMsg(timer.id)))
       ELSE /\ timer' = timer
            /\ Handled(m, EmptyBag, EmptyBag)
    /\ UNCHANGED <<status, net, conn, err, textInput, chatMessages, wordBoxGuide,
                   wordBox, lastID, nRead, nProc, chatHist>>
    /\ last' = NoEvent

\* UpdateInitConn with the bug of starting the read loop twice
UpdateInitConn_TwoReaders(m) ==
    /\ m.type = "initConnMsg"
    /\ conn' = m.conn
    /\ Handled(m, One(ListenCmd) (+) One(ListenCmd) (+) One(PingCmd), EmptyBag)
    /\ UNCHANGED <<status, net, err, timer, textInput, chatMessages, wordBoxGuide,
                   wordBox, lastID, nRead, nProc, chatHist>>

\* case initConnMsg (the placeholder text of the input is display only)
UpdateInitConn(m) ==
    /\ m.type = "initConnMsg"
    /\ conn' = m.conn
    /\ Handled(m, One(ListenCmd) (+) One(PingCmd), EmptyBag)
    /\ UNCHANGED <<status, net, err, timer, textInput, chatMessages, wordBoxGuide,
                   wordBox, lastID, nRead, nProc, chatHist>>
    /\ last' = NoEvent

\* UpdateErr with the bug of emptying the input as the success case does
UpdateErr_EmptiesInput(m) ==
    /\ m.type = "errMsg"
    /\ err' = m.err
    /\ textInput' = <<>>
    /\ Handled(m, EmptyBag, EmptyBag)
    /\ UNCHANGED <<status, net, conn, timer, chatMessages, wordBoxGuide,
                   wordBox, lastID, nRead, nProc, chatHist>>

\* UpdateErr with the bug of dialling again after an error
UpdateErr_Redials(m) ==
    /\ m.type = "errMsg"
    /\ err' = m.err
    /\ Handled(m, One(ConnectCmd), EmptyBag)
    /\ UNCHANGED <<status, net, conn, timer, textInput, chatMessages, wordBoxGuide,
                   wordBox, lastID, nRead, nProc, chatHist>>

\* UpdateErr with the bug of keeping the first error until it is cleared
UpdateErr_KeepsFirst(m) ==
    /\ m.type = "errMsg"
    /\ err' = IF err = NoErr THEN m.err ELSE err
    /\ Handled(m, EmptyBag, EmptyBag)
    /\ UNCHANGED <<status, net, conn, timer, textInput, chatMessages, wordBoxGuide,
                   wordBox, lastID, nRead, nProc, chatHist>>

\* case errMsg
UpdateErr(m) ==
    /\ m.type = "errMsg"
    /\ err' = m.err
    /\ Handled(m, EmptyBag, EmptyBag)
    /\ UNCHANGED <<status, net, conn, timer, textInput, chatMessages, wordBoxGuide,
                   wordBox, lastID, nRead, nProc, chatHist>>
    /\ last' = NoEvent

\* UpdateSuccessSent with the bug of starting a read as the inbound cases do
UpdateSuccessSent_AlsoReads(m) ==
    /\ m.type = "successSentMsg"
    /\ textInput' = <<>>
    /\ Handled(m, One(ListenCmd), EmptyBag)
    /\ UNCHANGED <<status, net, conn, err, timer, chatMessages, wordBoxGuide,
                   wordBox, lastID, nRead, nProc, chatHist>>

\* case successSentMsg
UpdateSuccessSent(m) ==
    /\ m.type = "successSentMsg"
    /\ textInput' = <<>>
    /\ Handled(m, EmptyBag, EmptyBag)
    /\ UNCHANGED <<status, net, conn, err, timer, chatMessages, wordBoxGuide,
                   wordBox, lastID, nRead, nProc, chatHist>>
    /\ last' = NoEvent

\* history: a message decoded from a frame has been handled
Counted(m) == nProc' = IF m.seq > 0 THEN nProc + 1 ELSE nProc

\* case wsPongMsg
UpdatePong(m) ==
    /\ m.type = "wsPongMsg"
    /\ Handled(m, One(ListenCmd), EmptyBag)
    /\ Counted(m)
    /\ UNCHANGED <<status, net, modelVars, lastID, nRead, chatHist>>

\* UpdateWsErr with the bug of not reading again after an error
UpdateWsErr_StopsReading(m) ==
    /\ m.type = "wsErrMsg"
    /\ err' = m.err
    /\ Handled(m, EmptyBag, EmptyBag)
    /\ Counted(m)
    /\ UNCHANGED <<status, net, conn, timer, textInput, chatMessages, wordBoxGuide,
                   wordBox, lastID, nRead, chatHist>>

\* UpdateWsErr with the bug of going back to the first phase on an error
UpdateWsErr_ResetsPhase(m) ==
    /\ m.type = "wsErrMsg"
    /\ err' = m.err
    /\ wordBoxGuide' = "WAITING ROUND START!"
    /\ wordBox' = ""
    /\ Handled(m, One(ListenCmd), EmptyBag)
    /\ Counted(m)
    /\ UNCHANGED <<status, net, conn, timer, textInput, chatMessages,
                   lastID, nRead, chatHist>>

\* case wsErrMsg
UpdateWsErr(m) ==
    /\ m.type = "wsErrMsg"
    /\ err' = m.err
    /\ Handled(m, One(ListenCmd), EmptyBag)
    /\ Counted(m)
    /\ UNCHANGED <<status, net, conn, timer, textInput, chatMessages, wordBoxGuide,
                   wordBox, lastID, nRead, chatHist>>

\* AppendChat with the bug of dropping the newest message instead of the oldest
AppendChat_DropsNewest(log, content) ==
    LET appended == Append(log, content)
    IN  IF Len(appended) > chatMessagesMax
        THEN SubSeq(appended, 1, chatMessagesMax)
        ELSE appended

\* append(m.chatMessages, content), then m.chatMessages[1:] when over the maximum
AppendChat(log, content) ==
    LET appended == Append(log, content)
    IN  IF Len(appended) > chatMessagesMax THEN Tail(appended) ELSE appended

\* case wsChatMsg
UpdateChat(m) ==
    /\ m.type = "wsChatMsg"
    /\ chatMessages' = AppendChat(chatMessages, m.content)
    /\ chatHist' = Append(chatHist, m.content)
    /\ Handled(m, One(ListenCmd), EmptyBag)
    /\ Counted(m)
    /\ UNCHANGED <<status, net, conn, err, timer, textInput, wordBoxGuide,
                   wordBox, lastID, nRead>>

\* RoundInfo with the bug of not recording the parse error
RoundInfo_DropsParseError(m, guide, wordKey, timeKey) ==
    LET word == Lookup(m.content, wordKey)
        ts == Lookup(m.content, timeKey)
    IN  IF ~IsString(word) \/ ~IsString(ts)
        THEN Panic(m)
        ELSE \E now1 \in Clock, now2 \in Clock :
                /\ now1 <= now2
                /\ LET parsed == ParseRFC3339(ts.s)
                       instant == IF parsed.ok THEN parsed.t ELSE now1
                   IN  /\ wordBoxGuide' = guide
                       /\ wordBox' = word.s
                       /\ lastID' = lastID + 1
                       /\ timer' = [Timeout |-> instant - now2, id |-> lastID + 1,
                                    running |-> TRUE]
                       /\ Handled(m, One(ListenCmd), One(TickMsg(lastID + 1)))
                       /\ Counted(m)
                       /\ UNCHANGED <<status, net, conn, err, textInput, chatMessages,
                                      nRead, chatHist>>

\* the part the two round cases share: the guide and the word are set, the
\* time ts is parsed, a parse error is recorded and replaced by time.Now(),
\* and a timer with a new id runs from time.Until of that instant
RoundInfo(m, guide, wordKey, timeKey) ==
    LET word == Lookup(m.content, wordKey)
        ts == Lookup(m.content, timeKey)
    IN  IF ~IsString(word) \/ ~IsString(ts)
        THEN Panic(m)
        ELSE \E now1 \in Clock, now2 \in Clock :
                /\ now1 <= now2
                /\ LET parsed == ParseRFC3339(ts.s)
                       instant == IF parsed.ok THEN parsed.t ELSE now1
                   IN  /\ wordBoxGuide' = guide
                       /\ wordBox' = word.s
                       /\ err' = IF parsed.ok THEN err ELSE ParseErr(ts.s)
                       /\ lastID' = lastID + 1
                       /\ timer' = [Timeout |-> instant - now2, id |-> lastID + 1,
                                    running |-> TRUE]
                       /\ Handled(m, One(ListenCmd), One(TickMsg(lastID + 1)))
                       /\ Counted(m)
                       /\ UNCHANGED <<status, net, conn, textInput, chatMessages,
                                      nRead, chatHist>>

\* UpdateOngoingRoundInfo with the bug of the other round case's guide text
UpdateOngoingRoundInfo_WrongGuide(m) ==
    /\ m.type = "wsOngoingRoundInfoMsg"
    /\ RoundInfo(m, "TIME'S UP! THE ANSWER:", "word_to_guess", "round_finish_time")

\* case wsOngoingRoundInfoMsg
UpdateOngoingRoundInfo(m) ==
    /\ m.type = "wsOngoingRoundInfoMsg"
    /\ RoundInfo(m, "PLEASE GUESS!", "word_to_guess", "round_finish_time")

\* case wsFinishedRoundInfoMsg
UpdateFinishedRoundInfo(m) ==
    /\ m.type = "wsFinishedRoundInfoMsg"
    /\ RoundInfo(m, "TIME'S UP! THE ANSWER:", "word_answer", "to_next_round_time")

\* UpdateFinishedGame with the bug of leaving the word of the round in the box
UpdateFinishedGame_KeepsWord(m) ==
    /\ m.type = "wsFinishedGameMsg"
    /\ wordBoxGuide' = "WAITING ROUND START!"
    /\ Handled(m, One(ListenCmd), EmptyBag)
    /\ Counted(m)
    /\ UNCHANGED <<status, net, conn, err, timer, textInput, chatMessages,
                   wordBox, lastID, nRead, chatHist>>

\* case wsFinishedGameMsg
UpdateFinishedGame(m) ==
    /\ m.type = "wsFinishedGameMsg"
    /\ wordBoxGuide' = "WAITING ROUND START!"
    /\ wordBox' = ""
    /\ Handled(m, One(ListenCmd), EmptyBag)
    /\ Counted(m)
    /\ UNCHANGED <<status, net, conn, err, timer, textInput, chatMessages,
                   lastID, nRead, chatHist>>

\* Update on a message of the queue
Update(m) ==
    \/ UpdateTick(m)
    \/ UpdateInitConn(m)
    \/ UpdateErr(m)
    \/ UpdateSuccessSent(m)
    \/ UpdatePong(m)
    \/ UpdateWsErr(m)
    \/ UpdateChat(m)
    \/ UpdateOngoingRoundInfo(m)
    \/ UpdateFinishedRoundInfo(m)
    \/ UpdateFinishedGame(m)

UpdateQueued ==
    /\ status = "running"
    /\ \E m \in BagToSet(msgs) : Update(m)

-----------------------------------------------------------------------------
\* The program

Next ==
    \/ connectToWsServer
    \/ listenToWsServer(Frames, MaxFrames)
    \/ \E c \in BagToSet(cmds) : sendToWsServer(c)
    \/ periodicallyPingWsServer
    \/ NetBreak
    \/ KeyCtrlC
    \/ KeyCtrlE
    \/ KeyEnter
    \/ KeyRunes(TypedToSend)
    \/ UpdateQueued

Spec == Init /\ [][Next]_vars

\* The chat log: the server sends MaxChatFrames chat messages, each with a text
\* of its own, while the user may submit /clear at any moment or delete what
\* is typed.
ChatFrame(n) == [type |-> JStr("ChatMessage"), content |-> JStr(ToString(n))]

NextChat ==
    \/ connectToWsServer
    \/ listenToWsServer({ChatFrame(nRead + 1)}, MaxChatFrames)
    \/ periodicallyPingWsServer
    \/ KeyEnter
    \/ KeyRunes({ClearText})
    \/ KeyCtrlU
    \/ UpdateQueued

SpecChat == Init /\ [][NextChat]_vars

\* the messages that resolve a read
ReadResultTypes ==
    {"wsPongMsg", "wsErrMsg", "wsChatMsg", "wsOngoingRoundInfoMsg",
     "wsFinishedRoundInfoMsg", "wsFinishedGameMsg"}

IsReadResult(m) == m.type \in ReadResultTypes

\* Update on the result of a read
UpdateReadResult ==
    /\ status = "running"
    /\ \E m \in BagToSet(msgs) : IsReadResult(m) /\ Update(m)

\* The read loop beside the keepalive, a failing transport, the user's text
\* and the key that quits.
NextRead ==
    \/ connectToWsServer
    \/ listenToWsServer(Frames, MaxFrames)
    \/ \E c \in BagToSet(cmds) : sendToWsServer(c)
    \/ periodicallyPingWsServer
    \/ NetBreak
    \/ KeyCtrlC
    \/ KeyEnter
    \/ KeyRunes({<<"c", "a", "t">>})
    \/ UpdateQueued

\* The runtime takes every message a command sends: a goroutine blocked on the
\* send to the message channel is served in turn.
FairSpec == Init /\ [][NextRead]_vars /\ WF_vars(UpdateReadResult)

\* The keyboard: every line the user may submit (text, blanks, /clear, /exit)
\* in every connection state, beside the inbound events, the keepalive and a
\* failing transport.
Blank == <<" ", "\t", NBSP>>
TypedKeys == {<<"c", "a", "t">>, Blank, ClearText, ExitText \o <<" ">>}

NextKeys ==
    \/ connectToWsServer
    \/ listenToWsServer(Frames, MaxFrames)
    \/ \E c \in BagToSet(cmds) : sendToWsServer(c)
    \/ periodicallyPingWsServer
    \/ NetBreak
    \/ KeyCtrlC
    \/ KeyCtrlE
    \/ KeyEnter
    \/ KeyRunes(TypedKeys)
    \/ UpdateQueued

SpecKeys == Init /\ [][NextKeys]_vars

-----------------------------------------------------------------------------
\* Properties

\* the message m is taken from the queue by this step
Taken(m) == CopiesIn(m, msgs') = CopiesIn(m, msgs) - 1

\* the results of reads that wait for Update
ReadResults == { m \in BagToSet(msgs) : IsReadResult(m) }
ReadResultsQueued ==
    LET n[S \in SUBSET ReadResults] ==
            IF S = {} THEN 0
            ELSE LET m == CHOOSE x \in S : TRUE
                 IN  CopiesIn(m, msgs) + n[S \ {m}]
    IN  n[ReadResults]

\* C1: at most one read is under way at any time, counting the reads that have
\* not returned and the results Update has not handled; and a step starts a
\* read only when it takes the result of the one read before or the connect
\* result from the queue, and then it starts exactly one.
C1_OneReadOutstanding ==
    /\ [](Reading + ReadResultsQueued <= 1)
    /\ [][Reading' > Reading =>
            /\ Reading = 0
            /\ Reading' = 1
            /\ \E m \in BagToSet(msgs) :
                  /\ m.type \in ReadResultTypes \cup {"initConnMsg"}
                  /\ Taken(m)]_vars

\* C1 witness: a read was started again after an inbound event was handled
C1_Witness == Reading = 1 /\ nProc >= 1 /\ status = "running"

\* C2: the messages decoded from frames are handled in the order of receipt:
\* the message a step takes carries the number that follows the number of
\* frames handled so far, and the frames handled never outnumber the received.
C2_InOrder ==
    /\ [](nProc <= nRead)
    /\ [][\A m \in BagToSet(msgs) :
            (IsReadResult(m) /\ m.seq > 0 /\ Taken(m)) =>
                (m.seq = nProc + 1 /\ nProc' = m.seq)]_vars

\* C2 witness: two frames were received and handled
C2_Witness == nProc >= 2 /\ nRead = nProc

\* C3: while the program runs, every resolved read (a decoded event, an
\* unknown tag, a transport failure) is followed by a new read on the same
\* handle, and no second dial is ever made.
C3_ReadLoopNeverStops ==
    /\ (ReadResults # {} /\ status = "running") ~> (Reading = 1 \/ status # "running")
    /\ [][conn # "nil" => (conn' = conn /\ ~BagIn(ConnectCmd, cmds'))]_vars

\* C3 witness: after a transport failure was handled a read is under way again
C3_Witness == net = "down" /\ err = ReadErr /\ Reading = 1 /\ conn = "conn"

\* the last n elements of s
LastN(s, n) == SubSeq(s, Len(s) - n + 1, Len(s))
Min(a, b) == IF a < b THEN a ELSE b

\* C4: the chat log never holds more than chatMessagesMax messages, and it
\* holds the last min(k, chatMessagesMax) of the k messages appended since
\* the log was last emptied, in the order of arrival.
C4_ChatLogBounded ==
    /\ Len(chatMessages) <= chatMessagesMax
    /\ chatMessages = LastN(chatHist, Min(Len(chatHist), chatMessagesMax))

\* C4 witness: more messages arrived than the log holds, the oldest are gone
C4_Witness == Len(chatHist) > chatMessagesMax /\ Len(chatMessages) = chatMessagesMax

\* the round phase the guide text stands for
Phase ==
    CASE wordBoxGuide = "WAITING ROUND START!" -> "AwaitingStart"
      [] wordBoxGuide = "PLEASE GUESS!" -> "Active"
      [] wordBoxGuide = "TIME'S UP! THE ANSWER:" -> "Revealed"

RoundTypes == {"wsOngoingRoundInfoMsg", "wsFinishedRoundInfoMsg", "wsFinishedGameMsg"}

\* the phase each kind of round event stands for
PhaseOf(type) ==
    CASE type = "wsOngoingRoundInfoMsg" -> "Active"
      [] type = "wsFinishedRoundInfoMsg" -> "Revealed"
      [] type = "wsFinishedGameMsg" -> "AwaitingStart"

\* the fields of a round event's content
WordOf(m) ==
    IF m.type = "wsOngoingRoundInfoMsg"
    THEN Lookup(m.content, "word_to_guess") ELSE Lookup(m.content, "word_answer")
TimeOf(m) ==
    IF m.type = "wsOngoingRoundInfoMsg"
    THEN Lookup(m.content, "round_finish_time") ELSE Lookup(m.content, "to_next_round_time")

\* C5: a step that handles a round event replaces guide and word whatever they
\* were: PLEASE GUESS! and word_to_guess for a round-started event, TIME'S UP!
\* THE ANSWER: and word_answer for a round-finished event, WAITING ROUND START!
\* and the empty word for a game-finished event.
C5_RoundEventReplacesPhase ==
    [][\A m \in BagToSet(msgs) : Taken(m) =>
          /\ m.type = "wsOngoingRoundInfoMsg" =>
                (wordBoxGuide' = "PLEASE GUESS!" /\ wordBox' = m.content.word_to_guess.s)
          /\ m.type = "wsFinishedRoundInfoMsg" =>
                (wordBoxGuide' = "TIME'S UP! THE ANSWER:" /\ wordBox' = m.content.word_answer.s)
          /\ m.type = "wsFinishedGameMsg" =>
                (wordBoxGuide' = "WAITING ROUND START!" /\ wordBox' = "")]_vars

\* C5 witness: a game-finished event was handled after a round event and
\* nothing of the round is left
C5_Witness ==
    /\ timer.id = 1
    /\ nProc = 2
    /\ wordBoxGuide = "WAITING ROUND START!"
    /\ wordBox = ""

\* C6 as claimed: the phase changes along the cycle AwaitingStart -> Active ->
\* Revealed -> AwaitingStart only.
Cycle ==
    {<<"AwaitingStart", "Active">>, <<"Active", "Revealed">>, <<"Revealed", "AwaitingStart">>}
C6_OnlyAlongCycle == [][Phase' # Phase => <<Phase, Phase'>> \in Cycle]_vars

\* C6 as amended: the phase changes only in a step that handles a round event,
\* and the phase after the step is the one the kind of the event stands for,
\* whatever the phase before.
C6_PhaseFollowsEvent ==
    [][Phase' # Phase =>
          \E m \in BagToSet(msgs) :
             /\ Taken(m)
             /\ m.type \in RoundTypes
             /\ Phase' = PhaseOf(m.type)]_vars

\* C6 witness: the first event handled was a round-finished event, and the
\* phase went from AwaitingStart to Revealed
C6_Witness == Phase = "Revealed" /\ nProc = 1 /\ timer.id = 1 /\ wordBox = "apple"

\* C7: a step that handles a round-started or round-finished event whose time
\* is a string that is no RFC 3339 time still sets guide and word, leaves a
\* new timer that has timed out, records the parse error, and starts a read.
C7_BadTimestamp ==
    [][\A m \in BagToSet(msgs) :
          (/\ Taken(m)
           /\ m.type \in {"wsOngoingRoundInfoMsg", "wsFinishedRoundInfoMsg"}
           /\ ~ParseRFC3339(TimeOf(m).s).ok) =>
              /\ Phase' = PhaseOf(m.type)
              /\ wordBox' = WordOf(m).s
              /\ timer'.id # timer.id
              /\ timer'.running
              /\ timer'.Timeout <= 0
              /\ Timedout(timer')
              /\ err' = ParseErr(TimeOf(m).s)
              /\ Reading' = Reading + 1]_vars

\* C7 witness: a round-finished event with a bad time was handled
C7_Witness ==
    /\ err = ParseErr(BadTime)
    /\ wordBoxGuide = "TIME'S UP! THE ANSWER:"
    /\ wordBox = "apple"
    /\ timer.running /\ Timedout(timer)
    /\ Reading = 1

\* C8 as claimed: no frame makes the client crash.
C8_NeverCrashes == status # "crashed"

KnownTypes ==
    {JStr("ChatMessage"), JStr("OngoingRoundInfo"), JStr("FinishedRoundInfo"),
     JStr("FinishedGame"), JStr("PongMessage")}

\* C9: a step that handles the message read from a frame whose type is none of
\* the five known tags, a missing type included, leaves guide, word and chat
\* log as they were, sets the error to the one that names the tag, and starts
\* a read.
C9_UnknownTag ==
    [][\A m \in BagToSet(msgs) :
          (/\ Taken(m)
           /\ IsReadResult(m)
           /\ m.seq > 0
           /\ Lookup(m.frame, "type") \notin KnownTypes) =>
              /\ UNCHANGED <<wordBoxGuide, wordBox, chatMessages>>
              /\ err' = <<"unknown message type: ", FmtS(Lookup(m.frame, "type"))>>
              /\ Reading' = Reading + 1]_vars

\* C9 witness: the frame with the tag Weird was handled
C9_Witness ==
    /\ err = <<"unknown message type: ", "Weird">>
    /\ nProc >= 1
    /\ Reading = 1

\* C10 as claimed: whenever Enter is pressed on an input that trims to /ping
\* the rejection is on its way to the session error, and no write of the user
\* carries /ping.
C10_PingAlwaysRejected ==
    /\ last = Pressed("enter", PingText) => BagIn(SendCmd(PingText), cmds)
    /\ last # Wrote("user", PingText)

\* the step handles Enter on an input that trims to text
Submitted(text) == last' = Pressed("enter", text) /\ status = "running"

\* the step makes a write on the connection
Writes == last'.kind = "write"

\* C11: a step that handles Enter on an input that trims to /clear empties the
\* chat log and the input, with or without a connection; it starts no command
\* and makes no write, and it leaves guide, word, timer and error as they were.
C11_ClearEmptiesLogAndInput ==
    [][Submitted(ClearText) =>
          /\ chatMessages' = <<>>
          /\ textInput' = <<>>
          /\ cmds' = cmds
          /\ ~Writes
          /\ UNCHANGED <<wordBoxGuide, wordBox, timer, err, conn, status>>]_vars

\* C11 witness: /clear was submitted without a connection, after the dial
\* failed and its error was recorded
C11_Witness ==
    /\ last = Pressed("enter", ClearText)
    /\ conn = "nil"
    /\ err = DialErr
    /\ textInput = <<>>
    /\ chatMessages = <<>>

\* the line in the input cannot be sent: it is no command and there is no
\* connection, or it is empty after trimming
CannotSend ==
    LET trimmedInput == TrimSpace(textInput)
    IN  \/ conn = "nil" /\ trimmedInput \notin {ExitText, ClearText}
        \/ trimmedInput = <<>>

\* C12: a step that handles Enter on a line that cannot be sent (no command
\* and no connection, or empty after trimming) starts no command, makes no
\* write, and leaves input, chat log, guide, word and error as they were.
C12_UnsendableIsNoOp ==
    [][(Submitted(TrimSpace(textInput)) /\ CannotSend) =>
          /\ cmds' = cmds
          /\ msgs' = msgs
          /\ ~Writes
          /\ UNCHANGED <<textInput, chatMessages, wordBoxGuide, wordBox, err, timer,
                         conn, status>>]_vars

\* C12 witness: text was submitted after the dial failed; it is still in the
\* input and nothing runs
C12_Witness ==
    /\ last = Pressed("enter", <<"c", "a", "t">>)
    /\ conn = "nil"
    /\ err = DialErr
    /\ textInput = <<"c", "a", "t">>
    /\ cmds = EmptyBag
    /\ msgs = EmptyBag

\* the command c returns in this step
Returns(c) == CopiesIn(c, cmds') = CopiesIn(c, cmds) - 1

\* the lines Update's Enter case does not hand to sendToWsServer, and /ping,
\* which sendToWsServer does not write
Commands == {ExitText, ClearText, PingText}

\* C13: Enter on a line that is no command and not empty, with a connection,
\* starts one sendToWsServer with the trimmed line and leaves the input; the
\* command makes one write of that line and returns successSentMsg, or fails
\* and returns the write error, and the user's writes are made by these
\* commands only; Update empties the input on successSentMsg and on the write
\* error sets the session error and leaves the input.
C13_WriteOnceClearOnSuccess ==
    /\ [][(Submitted(TrimSpace(textInput)) /\ conn # "nil"
             /\ TrimSpace(textInput) \notin Commands \cup {<<>>}) =>
            /\ cmds' = cmds (+) One(SendCmd(TrimSpace(textInput)))
            /\ ~Writes
            /\ UNCHANGED <<textInput, err, msgs>>]_vars
    /\ [][\A c \in BagToSet(cmds) :
            (c.cmd = "send" /\ c.msg \notin Commands /\ Returns(c)) =>
               /\ cmds' = cmds (-) One(c)
               /\ \/ /\ last' = Wrote("user", c.msg)
                     /\ msgs' = msgs (+) One([type |-> "successSentMsg"])
                  \/ /\ ~Writes
                     /\ msgs' = msgs (+) One(errMsg(WriteErr, "user"))
               /\ UNCHANGED <<textInput, err>>]_vars
    /\ [][(Writes /\ last'.by = "user") => Returns(SendCmd(last'.payload))]_vars
    /\ [][\A c \in BagToSet(cmds') :
            (c.cmd = "send" /\ CopiesIn(c, cmds') > CopiesIn(c, cmds)) =>
               (Submitted(c.msg) /\ cmds' = cmds (+) One(c))]_vars
    /\ [][Taken([type |-> "successSentMsg"]) => (textInput' = <<>> /\ err' = err)]_vars
    /\ [][Taken(errMsg(WriteErr, "user")) =>
            (err' = WriteErr /\ textInput' = textInput)]_vars
    /\ [][(textInput # <<>> /\ textInput' = <<>>) =>
            \/ Taken([type |-> "successSentMsg"])
            \/ Submitted(ClearText)
            \/ (msgs' = msgs /\ cmds' = cmds /\ last' = NoEvent)]_vars

\* C13 witness: the user's write failed (the keepalive has not failed), the
\* write error is the session error and the line is still in the input
C13_Witness ==
    /\ err = WriteErr
    /\ BagIn(PingCmd, cmds)
    /\ Sending = 0
    /\ textInput = <<"c", "a", "t">>
    /\ net = "down"

\* connectToWsServer has returned the dial error: it runs no more, and neither
\* the model nor the queue holds a connection
DialFailed ==
    /\ conn = "nil"
    /\ ~BagIn(ConnectCmd, cmds)
    /\ ~BagIn([type |-> "initConnMsg", conn |-> "conn"], msgs)

\* C14: a failed dial returns the dial error, which Update records as the
\* session error; from then on the handle stays nil and no dial is made again,
\* no command runs (no read, no keepalive, no send) and no write is made; the
\* program does not end unless the user quits, and ctrl+e, Enter (for /clear)
\* and ctrl+c are still handled.
C14_FailedConnectIsTerminal ==
    /\ [][(Returns(ConnectCmd) /\ net' = "none") =>
            (msgs' = msgs (+) One(errMsg(DialErr, "connect")) /\ DialFailed')]_vars
    /\ [][Taken(errMsg(DialErr, "connect")) => err' = DialErr]_vars
    /\ [][CopiesIn(ConnectCmd, cmds') <= CopiesIn(ConnectCmd, cmds)]_vars
    /\ [][DialFailed => DialFailed']_vars
    /\ [](DialFailed => (cmds = EmptyBag /\ last.kind # "write" /\ net = "none"))
    /\ [](DialFailed => status \in {"running", "quit"})
    /\ []((DialFailed /\ status = "running") =>
            (ENABLED KeyCtrlE /\ ENABLED KeyEnter /\ ENABLED KeyCtrlC))

\* C14 witness: the dial failed, its error is the session error, nothing runs,
\* and the program ran on until the user quit
C14_Witness ==
    /\ DialFailed
    /\ err = DialErr
    /\ cmds = EmptyBag
    /\ msgs = EmptyBag
    /\ status = "quit"

\* The keepalive beside everything else: the goroutine of
\* periodicallyPingWsServer is scheduled and its sleep ends, whatever Update,
\* the read loop and the user do.
FairPing == Init /\ [][NextRead]_vars /\ WF_vars(periodicallyPingWsServer)

\* the step is a write of the keepalive
KeepaliveWrote == last = Wrote("keepalive", PingText)

\* C15: while the program runs with a connection whose transport is up (so
\* that no keepalive write has failed), the keepalive writes /ping again and
\* again; its loop can take a turn in every such state, whatever is queued,
\* read, typed or sent; the loop is started only by the step that handles the
\* connect result, once, and only the loop writes the keepalive.
C15_KeepaliveGoesOn ==
    /\ []<>(KeepaliveWrote \/ conn = "nil" \/ net # "up" \/ status # "running")
    /\ []((BagIn(PingCmd, cmds) /\ status = "running") => ENABLED periodicallyPingWsServer)
    /\ []((conn # "nil" /\ net = "up") => CopiesIn(PingCmd, cmds) = 1)
    /\ [][CopiesIn(PingCmd, cmds') > CopiesIn(PingCmd, cmds) =>
            /\ Taken([type |-> "initConnMsg", conn |-> "conn"])
            /\ conn = "nil" /\ conn' = "conn"
            /\ CopiesIn(PingCmd, cmds') = 1]_vars
    /\ [][(Writes /\ last'.by = "keepalive") =>
            (last'.payload = PingText /\ BagIn(PingCmd, cmds) /\ conn # "nil")]_vars

\* C15 witness: the keepalive wrote while a read was pending, a user's write
\* was on its way and text was in the input
C15_Witness ==
    /\ KeepaliveWrote
    /\ Reading = 1
    /\ Sending = 1
    /\ textInput # <<>>
    /\ nProc >= 1

\* the keepalive was started and its loop has returned
PingStopped == conn # "nil" /\ ~BagIn(PingCmd, cmds)

\* C16: every write error comes from a command that returns with it; the loop
\* of the keepalive returns only on a failed write, with the write error,
\* which Update records as the session error; once it has returned it is not
\* started again and the keepalive is written no more, while one read stays
\* under way and Enter on a line to send still starts sendToWsServer.
C16_FailedPingEndsKeepalive ==
    /\ [][\A by \in {"user", "keepalive"} :
            CopiesIn(errMsg(WriteErr, by), msgs') > CopiesIn(errMsg(WriteErr, by), msgs) =>
               BagCardinality(cmds') = BagCardinality(cmds) - 1]_vars
    /\ [][Returns(PingCmd) =>
            /\ net # "up"
            /\ ~Writes
            /\ msgs' = msgs (+) One(errMsg(WriteErr, "keepalive"))]_vars
    /\ [][(PingStopped /\ Taken(errMsg(WriteErr, "keepalive"))) =>
            err' = WriteErr]_vars
    /\ [][PingStopped => (PingStopped' /\ ~(Writes /\ last'.by = "keepalive"))]_vars
    /\ [](PingStopped => Reading + ReadResultsQueued = 1)
    /\ [][(PingStopped /\ Submitted(TrimSpace(textInput))
             /\ TrimSpace(textInput) \notin {ExitText, ClearText, <<>>}) =>
            cmds' = cmds (+) One(SendCmd(TrimSpace(textInput)))]_vars

\* C16 witness: the keepalive has failed and its error is the session error;
\* a read is under way and a write of the user is on its way
C16_Witness ==
    /\ PingStopped
    /\ err = WriteErr
    /\ net = "down"
    /\ Reading = 1
    /\ BagIn(SendCmd(<<"c", "a", "t">>), cmds)
    /\ status = "running"

\* the message m carries an error for Update to record
CarriesErr(m) ==
    \/ m.type \in {"errMsg", "wsErrMsg"}
    \/ /\ m.type \in {"wsOngoingRoundInfoMsg", "wsFinishedRoundInfoMsg"}
       /\ ~ParseRFC3339(TimeOf(m).s).ok

\* the error Update records for such a message
ErrOf(m) == IF m.type \in {"errMsg", "wsErrMsg"} THEN m.err ELSE ParseErr(TimeOf(m).s)

\* the step handles the key ctrl+e
ClearedErr == last'.kind = "key" /\ last'.key = "ctrl+e"

\* C17: the session error is one slot.  A step that handles a message that
\* carries an error sets the slot to that error whatever it held; a step
\* that handles ctrl+e empties it and changes nothing else; no other step
\* changes it.
C17_ErrIsSingleSlot ==
    /\ [][\A m \in BagToSet(msgs) :
            (Taken(m) /\ CarriesErr(m)) => (err' = ErrOf(m) /\ err' # NoErr)]_vars
    /\ [][ClearedErr =>
            /\ err' = NoErr
            /\ UNCHANGED <<status, net, cmds, msgs, conn, timer, textInput,
                           chatMessages, wordBoxGuide, wordBox, lastID>>]_vars
    /\ [][err' # err =>
            \/ ClearedErr
            \/ \E m \in BagToSet(msgs) : Taken(m) /\ CarriesErr(m)]_vars

\* C17 witness: the keepalive's write error was recorded and the read error
\* after it; the slot holds the read error alone
C17_Witness ==
    /\ PingStopped
    /\ ~BagIn(errMsg(WriteErr, "keepalive"), msgs)
    /\ ReadResults = {}
    /\ err = ReadErr
    /\ net = "down"

\* View shows a countdown after the guide: the timer has not timed out
CountdownShown == ~Timedout(timer)

\* C18 as claimed: whenever the phase is AwaitingStart no countdown runs and
\* none is shown.
C18_InertInAwaitingStart ==
    Phase = "AwaitingStart" => (~Running(timer) /\ ~CountdownShown)

\* C19: guide and word change only in a step that handles a round-started,
\* round-finished or game-finished event: a step that handles any other
\* message, a key or a submission, and every step of a command, leaves them.
C19_OnlyRoundEventsChangePhase ==
    /\ [][(wordBoxGuide' # wordBoxGuide \/ wordBox' # wordBox) =>
            \E m \in BagToSet(msgs) : Taken(m) /\ m.type \in RoundTypes]_vars
    /\ [][\A m \in BagToSet(msgs) :
            (Taken(m) /\ m.type \notin RoundTypes) =>
               UNCHANGED <<wordBoxGuide, wordBox>>]_vars
    /\ [][last'.kind = "key" => UNCHANGED <<wordBoxGuide, wordBox>>]_vars

\* C19 witness: in the phase Active, a frame with an unknown tag was handled
\* and /clear was submitted; guide and word are still those of the round
C19_Witness ==
    /\ wordBoxGuide = "PLEASE GUESS!"
    /\ wordBox = "elppa"
    /\ nProc = 2
    /\ ReadResults = {}
    /\ last = Pressed("enter", ClearText)
    /\ err = UnknownTypeErr(JStr("Weird"))

\* C20 as claimed: the input that the success of a write empties holds the
\* line that was written and nothing typed since.  Stated for the success
\* that Update handles right after the write was made, when the line written
\* is still on record.
C20_ClearsOnlyWhatWasSent ==
    [][(Taken([type |-> "successSentMsg"]) /\ last.kind = "write" /\ last.by = "user") =>
          (TrimSpace(textInput) = last.payload /\ textInput' = <<>>)]_vars

====
